---- MODULE Spec2Model ----
(***************************************************************************)
(* Orchestration and artifact-synchronisation core of the multi-agent      *)
(* web-project generator: the Artifact Store and active selection          *)
(* (AppContext.jsx), the chat dispatch and consensus poll loop             *)
(* (useOpenRouter.js, ChatInput.jsx) and the consensus progress state      *)
(* (ConsensusContext.jsx).                                                 *)
(*                                                                         *)
(* React state is modelled in two layers.  The committed value of a state  *)
(* cell is the result of the queued setState calls applied in order; the   *)
(* `rendered` record is the snapshot the handlers of the last render       *)
(* closed over.  A handler reads closure values from `rendered`, a         *)
(* functional update (setX(prev => ...)) reads the committed value.        *)
(***************************************************************************)
EXTENDS Integers, Sequences, FiniteSets, TLC

VARIABLES
  files,            \* AppContext files: insertion-ordered <<[name, content]>>
  activeFile,       \* AppContext activeFile
  messages,         \* AppContext messages (Conversation Log)
  isGenerating,     \* AppContext isGenerating
  apiKey,           \* AppContext apiKey
  roles,            \* AppContext roles
  currentProject,   \* AppContext currentProject
  previewKey,       \* AppContext previewKey
  refreshTimers,    \* pending setTimeout(refreshPreview, 300) callbacks
  projects,         \* localStorage 'projects'
  rendered,         \* values closed over by the handlers of the last render
  turnOps,          \* handler calls made against `rendered` since it was taken
  consensusMessages, \* ConsensusContext consensusMessages (consensus log)
  projectPlan,      \* ConsensusContext projectPlan
  currentPhase,     \* ConsensusContext currentPhase
  progress,         \* ConsensusContext progress
  error,            \* useOpenRouter error
  pollingInterval,  \* useOpenRouter pollingInterval
  chat,             \* sendMessage calls awaiting sendChatMessage
  intervals,        \* number of setInterval handles created (handles 1..intervals)
  timers,           \* interval handles not yet cleared
  inflight,         \* per handle: ticks awaiting getConsensusStatus
  stopped,          \* handles whose tick returned shouldStop = true
  hook,             \* the ChatPanel instance (MessageList, and ChatInput with
                    \* its useOpenRouter): whether it is mounted, and its
                    \* number (instances are mounted in turn)
  owners,           \* per handle: the instance whose startPolling created it
  iframe,           \* PreviewPanel: the document written to the iframe
  clock,            \* last Date.now() reading taken by addMessage
  applied,          \* ids (React keys) of the mounted MessageItems whose
                    \* appliedRef.current is true
  everApplied,      \* history: the keys of the log entries whose code blocks
                    \* the auto-apply effect has applied at least once
  extracted,        \* codeBlocks and textContent of the MessageItem rendered last
  toast,            \* sonner notice shown by the last step (Null: none)
  result            \* value returned by the last step (Undefined: none)

storeVars == <<files, activeFile, currentProject, previewKey, refreshTimers,
               projects, rendered, turnOps>>
appVars == <<messages, isGenerating, apiKey, roles>>
consensusVars == <<consensusMessages, projectPlan, currentPhase, progress>>
hookVars == <<error, pollingInterval, chat, intervals, timers, inflight, stopped>>
viewVars == <<clock, applied, everApplied, extracted>>
mountVars == <<hook, owners, iframe>>
vars == <<storeVars, appVars, consensusVars, hookVars, viewVars, mountVars,
          toast, result>>

(***************************************************************************)
(* Bounds of the model.                                                    *)
(***************************************************************************)
MaxTurnOps == 2        \* handler calls against one rendered snapshot
MaxPreviewKey == 2     \* refreshes followed
MaxTimers == 3         \* pending refresh timers followed
MaxMessages == 5       \* Conversation Log entries followed
MaxResponses == 2      \* entries of one direct response
MaxLoops == 2          \* poll loops (setInterval handles) followed
MaxInflight == 2       \* overlapping status requests of one loop
MaxConsensus == 2      \* consensus log entries followed
MaxSteps == 3          \* steps of a plan
MaxCurrent == 4        \* step completions followed

Undefined == "undefined"
True == "true"      \* JavaScript booleans returned by handlers
False == "false"
Null == "null"

\* File names the handlers are called with and contents they write.
FileNames == {"index.html", "style.css", "script.js"}
\* A file content is a text, a sequence of tokens; <<>> is the empty string.
Contents == {<<>>}
ProjectNames == {"p"}

(***************************************************************************)
(* Plain-object helpers: a files object is a sequence of [name, content]   *)
(* in insertion order, the order Object.keys returns.                      *)
(***************************************************************************)
ObjectKeys(obj) == [i \in 1..Len(obj) |-> obj[i].name]

KeySet(obj) == {obj[i].name : i \in 1..Len(obj)}

\* obj[name]
Lookup(obj, name) ==
  IF name \in KeySet(obj)
    THEN (CHOOSE e \in {obj[i] : i \in 1..Len(obj)} : e.name = name).content
    ELSE Undefined

\* JavaScript truthiness of a string, undefined or null
Truthy(v) == v \notin {"", Undefined, Null}

\* { ...obj, [name]: content }
Spread(obj, name, content) ==
  IF name \in KeySet(obj)
    THEN [i \in 1..Len(obj) |->
            IF obj[i].name = name THEN [name |-> name, content |-> content]
                                  ELSE obj[i]]
    ELSE Append(obj, [name |-> name, content |-> content])

\* Mutant of DeleteKey: the filter predicate inverted.
DeleteKey_Inverted(obj, name) == SelectSeq(obj, LAMBDA e : e.name = name)

\* delete obj[name]
DeleteKey(obj, name) == SelectSeq(obj, LAMBDA e : e.name # name)

\* Object.keys(obj)[0]
FirstKey(obj) == IF Len(obj) = 0 THEN Undefined ELSE obj[1].name

EndsWith(name, ext) ==
  \/ ext = ".html" /\ name \in {"index.html"}
  \/ ext = ".css" /\ name \in {"style.css"}
  \/ ext = ".js" /\ name \in {"script.js"}

Previewable(name) ==
  EndsWith(name, ".html") \/ EndsWith(name, ".css") \/ EndsWith(name, ".js")

\* The roles object, its keys in the order of the literal.
DEFAULT_ROLES ==
  <<[name |-> "planner", content |-> [model |-> Null, enabled |-> TRUE]],
    [name |-> "designer", content |-> [model |-> Null, enabled |-> FALSE]],
    [name |-> "coder", content |-> [model |-> Null, enabled |-> TRUE]],
    [name |-> "eyes", content |-> [model |-> Null, enabled |-> FALSE]],
    [name |-> "debugger", content |-> [model |-> Null, enabled |-> TRUE]]>>

InitialFiles ==
  <<[name |-> "index.html", content |-> <<"html0">>],
    [name |-> "style.css", content |-> <<"css0">>],
    [name |-> "script.js", content |-> <<"js0">>]>>

Snapshot ==
  [files |-> files, activeFile |-> activeFile, messages |-> messages,
   roles |-> roles, isGenerating |-> isGenerating, apiKey |-> apiKey]

(***************************************************************************)
(* Initial state: AppProvider's useState initialisers with an empty        *)
(* localStorage.                                                           *)
(***************************************************************************)
StoreInit ==
  /\ files = InitialFiles
  /\ activeFile = "index.html"
  /\ currentProject = Null
  /\ previewKey = 0
  /\ refreshTimers = 0
  /\ projects = <<>>
  /\ turnOps = 0

AppInit ==
  /\ messages = <<>>
  /\ isGenerating = FALSE
  /\ apiKey = ""
  /\ roles = DEFAULT_ROLES

ConsensusInit ==
  /\ consensusMessages = <<>>
  /\ projectPlan = <<>>
  /\ currentPhase = "planning"
  /\ progress = [current |-> 0, total |-> 0, phase |-> "Planning",
                 status |-> "idle"]

\* The interval handle state holds null: no handle (handles are positive).
NoInterval == 0

\* No instance: the handle has not been created (instances count from 1).
NoOwner == 0

HookInit ==
  /\ error = Null
  /\ pollingInterval = NoInterval
  /\ chat = <<>>
  /\ intervals = 0
  /\ timers = {}
  /\ inflight = [h \in 1..MaxLoops |-> 0]
  /\ stopped = {}
  /\ hook = [mounted |-> TRUE, id |-> 1]
  /\ owners = [h \in 1..MaxLoops |-> NoOwner]
  /\ iframe = <<>>

(***************************************************************************)
(* React: a handler call made against the last rendered snapshot, and the  *)
(* render that publishes the committed state to the next handlers.         *)
(***************************************************************************)
\* A step that shows no notice and returns nothing.
Silent == toast' = Null /\ result' = Undefined

HandlerCall ==
  /\ turnOps < MaxTurnOps
  /\ turnOps' = turnOps + 1
  /\ UNCHANGED rendered

Render ==
  /\ turnOps > 0
  /\ rendered' = Snapshot
  /\ turnOps' = 0
  /\ Silent
  /\ UNCHANGED <<files, activeFile, currentProject, previewKey, refreshTimers,
                 projects, appVars, consensusVars, hookVars>>
  /\ UNCHANGED <<viewVars, mountVars>>

(***************************************************************************)
(* Artifact Store operations (AppContext.jsx).                             *)
(***************************************************************************)
\* setFiles(prev => ({...prev, [filename]: content})), then the debounced
\* refresh for previewable names.
updateFileEffect(filename, content) ==
  /\ files' = Spread(files, filename, content)
  /\ IF Previewable(filename)
       THEN /\ refreshTimers < MaxTimers
            /\ refreshTimers' = refreshTimers + 1
       ELSE UNCHANGED refreshTimers

\* The guard of createFile: if (files[filename])
createFileExists(filename) ==
  /\ filename \in KeySet(rendered.files)
  /\ Lookup(rendered.files, filename) # <<>>

createFile(filename, content) ==
  /\ HandlerCall
  /\ IF createFileExists(filename)
       THEN /\ toast' = "File already exists"
            /\ result' = False
            /\ UNCHANGED <<files, activeFile>>
       ELSE /\ files' = Spread(files, filename, content)
            /\ activeFile' = filename
            /\ toast' = "File created"
            /\ result' = True
  /\ UNCHANGED <<currentProject, previewKey, refreshTimers, projects, appVars, consensusVars, hookVars>>
  /\ UNCHANGED <<viewVars, mountVars>>

\* Mutant of deleteFileIsLast: the count compared with 0 instead of 1.
deleteFileIsLast_Zero == Len(ObjectKeys(rendered.files)) = 0

\* The guard of deleteFile: if (Object.keys(files).length === 1)
deleteFileIsLast == Len(ObjectKeys(rendered.files)) = 1

deleteFile(filename) ==
  /\ HandlerCall
  /\ result' = Undefined
  /\ IF deleteFileIsLast
       THEN /\ toast' = "Cannot delete the last file"
            /\ UNCHANGED <<files, activeFile>>
       ELSE LET newFiles == DeleteKey(rendered.files, filename) IN
            /\ files' = newFiles
            /\ activeFile' = IF rendered.activeFile = filename
                               THEN FirstKey(newFiles)
                               ELSE activeFile
            /\ toast' = "File deleted"
  /\ UNCHANGED <<currentProject, previewKey, refreshTimers, projects, appVars, consensusVars, hookVars>>
  /\ UNCHANGED <<viewVars, mountVars>>

\* EditorPanel file tab: onClick={() => setActiveFile(filename)}
setActiveFile(filename) ==
  /\ HandlerCall
  /\ filename \in KeySet(rendered.files)
  /\ activeFile' = filename
  /\ Silent
  /\ UNCHANGED <<files, currentProject, previewKey, refreshTimers, projects,
                 appVars, consensusVars, hookVars>>
  /\ UNCHANGED <<viewVars, mountVars>>

\* CodeEditor onChange: updateFile(activeFile, value)
handleEditorChange(value) ==
  /\ HandlerCall
  /\ updateFileEffect(rendered.activeFile, value)
  /\ Silent
  /\ UNCHANGED <<activeFile, currentProject, previewKey, projects, appVars, consensusVars, hookVars>>
  /\ UNCHANGED <<viewVars, mountVars>>

\* setTimeout(refreshPreview, 300) firing: setPreviewKey(prev => prev + 1)
refreshPreview ==
  /\ refreshTimers > 0
  /\ previewKey < MaxPreviewKey
  /\ refreshTimers' = refreshTimers - 1
  /\ previewKey' = previewKey + 1
  /\ Silent
  /\ UNCHANGED <<files, activeFile, currentProject, projects, rendered,
                 turnOps, appVars, consensusVars, hookVars>>
  /\ UNCHANGED <<viewVars, mountVars>>

(***************************************************************************)
(* Project persistence (AppContext.jsx saveProject / loadProject).         *)
(***************************************************************************)
\* Date.prototype.toJSON, read back by JSON.parse: the ISO text of the
\* instant, a string (a string is written and read back as it is).
toJSON(timestamp) == [type |-> "string", ms |-> timestamp.ms]

\* JSON.parse(JSON.stringify(project)): file contents are strings and are
\* kept as they are, key order included; numbers, strings and null inside
\* the messages are kept, a Date comes back as its ISO string.
JSONRoundTrip(project) ==
  [project EXCEPT !.messages =
     [n \in 1..Len(project.messages) |->
        [project.messages[n] EXCEPT
           !.timestamp = toJSON(project.messages[n].timestamp)]]]

FindIndex(name) ==
  IF \E i \in 1..Len(projects) : projects[i].name = name
    THEN CHOOSE i \in 1..Len(projects) :
           /\ projects[i].name = name
           /\ \A j \in 1..(i - 1) : projects[j].name # name
    ELSE 0

saveProject(name) ==
  LET project == [name |-> name, files |-> rendered.files,
                  messages |-> rendered.messages, roles |-> rendered.roles]
      existingIndex == FindIndex(name)
  IN
  /\ HandlerCall
  /\ projects' = IF existingIndex > 0
                   THEN [projects EXCEPT ![existingIndex] = JSONRoundTrip(project)]
                   ELSE Append(projects, JSONRoundTrip(project))
  /\ currentProject' = name
  /\ toast' = "Project saved"
  /\ result' = Undefined
  /\ UNCHANGED <<files, activeFile, previewKey, refreshTimers, appVars,
                 consensusVars, hookVars>>
  /\ UNCHANGED <<viewVars, mountVars>>

\* key={message.id}: the MessageItem instance of entry n, told from the
\* earlier entries that carry the same id.
InstanceKey(log, n) ==
  <<log[n].id, Cardinality({j \in 1..(n - 1) : log[j].id = log[n].id})>>

\* The instances rendered for a log.
Keys(log) == {InstanceKey(log, n) : n \in 1..Len(log)}

loadProject(name) ==
  LET i == FindIndex(name) IN
  /\ HandlerCall
  /\ result' = Undefined
  /\ IF i > 0
       THEN /\ previewKey < MaxPreviewKey
            /\ files' = projects[i].files
            /\ messages' = projects[i].messages
            /\ applied' = applied \cap Keys(projects[i].messages)
            /\ roles' = projects[i].roles
            /\ currentProject' = name
            /\ activeFile' = FirstKey(projects[i].files)
            /\ toast' = "Project loaded"
            /\ previewKey' = previewKey + 1
       ELSE /\ toast' = "Project not found"
            /\ UNCHANGED <<files, messages, roles, currentProject, activeFile,
                           previewKey, applied>>
  /\ UNCHANGED <<refreshTimers, projects, isGenerating, apiKey, consensusVars,
                 hookVars>>
  /\ UNCHANGED <<clock, extracted, everApplied, mountVars>>

StoreNext ==
  \/ \E f \in FileNames, c \in Contents : createFile(f, c)
  \/ \E f \in FileNames : deleteFile(f)
  \/ \E f \in FileNames : setActiveFile(f)
  \/ \E v \in Contents : handleEditorChange(v)
  \/ \E n \in ProjectNames : saveProject(n)
  \/ \E n \in ProjectNames : loadProject(n)
  \/ refreshPreview
  \/ Render

(***************************************************************************)
(* Consensus progress state (ConsensusContext.jsx).                        *)
(***************************************************************************)
\* addConsensusMessage: setConsensusMessages(prev => [...prev, {...message}])
addConsensusMessage(log, message) == Append(log, message)

\* A plan is modelled by the number of its steps; NoSteps: plan.steps absent.
NoSteps == -1

\* plan.steps?.length || 0
PlanTotal(plan) == IF plan.steps = NoSteps THEN 0 ELSE plan.steps

\* setProgress(prev => ({...prev, total, phase: 'Coding', status: 'running'}))
PlanProgress(prev, plan) ==
  [prev EXCEPT !.total = PlanTotal(plan), !.phase = "Coding",
               !.status = "running"]

\* prev.current + 1 >= prev.total ? 'completed' : 'running'
StepStatus(prev) ==
  IF prev.current + 1 >= prev.total THEN "completed" ELSE "running"

\* setProgress(prev => ({...prev, current: prev.current + 1, phase, status}))
StepProgress(prev, step) ==
  [prev EXCEPT !.current = prev.current + 1,
               !.phase = IF Truthy(step.phase) THEN step.phase ELSE prev.phase,
               !.status = StepStatus(prev)]

setProjectPlanFromConsensus(plan) ==
  /\ projectPlan' = <<plan>>
  /\ progress' = PlanProgress(progress, plan)
  /\ currentPhase' = "coding"

updateProgress(step) ==
  /\ progress.current < MaxCurrent
  /\ progress' = StepProgress(progress, step)
  /\ UNCHANGED <<projectPlan, currentPhase, consensusMessages>>

\* Values the consensus operations are called with.
PlanSteps == (0..MaxSteps) \cup {NoSteps}
StepPhases == {Undefined, "Testing"}
StatusPhases == {"coding", "testing"}
Entries == {"e1"}

\* The context operations called one at a time by a consumer.
PlanApplied(n) ==
  /\ setProjectPlanFromConsensus([steps |-> n, updated |-> TRUE])
  /\ Silent
  /\ UNCHANGED <<consensusMessages, storeVars, appVars, hookVars>>
  /\ UNCHANGED <<viewVars, mountVars>>

StepCompleted(step) ==
  /\ updateProgress(step)
  /\ Silent
  /\ UNCHANGED <<storeVars, appVars, hookVars>>
  /\ UNCHANGED <<viewVars, mountVars>>

PhaseSet(phase) ==
  /\ currentPhase' = phase
  /\ Silent
  /\ UNCHANGED <<consensusMessages, projectPlan, progress, storeVars, appVars,
                 hookVars>>
  /\ UNCHANGED <<viewVars, mountVars>>

MessageAdded(entry) ==
  /\ Len(consensusMessages) < MaxConsensus
  /\ consensusMessages' = addConsensusMessage(consensusMessages, [entry |-> entry])
  /\ Silent
  /\ UNCHANGED <<projectPlan, currentPhase, progress, storeVars, appVars,
                 hookVars>>
  /\ UNCHANGED <<viewVars, mountVars>>

ProgressNext ==
  \/ \E n \in PlanSteps : PlanApplied(n)
  \/ \E ph \in StepPhases : StepCompleted([phase |-> ph])
  \/ \E ph \in StatusPhases : PhaseSet(ph)
  \/ \E e \in Entries : MessageAdded(e)

(***************************************************************************)
(* Code Extractor (MessageItem: codeBlocks / extractCodeBlocks and         *)
(* textContent).  A message text is a sequence of tokens: the fence,       *)
(* a newline, a space, a run of [\w.\-] characters (a word), or a run that *)
(* holds a character outside [\w.\-] and no white space (such as c++).     *)
(***************************************************************************)
\* The three backquotes that open and close a block.
Fence == "FENCE"
NL == "\n"
Space == " "
Words == {"html", "HTML", "css", "js", "a", "b", "ok", "console.log(1)",
          "build", "me", "page"}
Others == {"c++"}

IsSpace(tok) == tok \in {NL, Space}

\* [\w\.\-]+ : console.log(1) holds parentheses and is no such run.
IsWord(tok) == tok \in Words \ {"console.log(1)"}

\* String.prototype.toLowerCase on the words of the model.
toLowerCase(w) == IF w = "HTML" THEN "html" ELSE w

RECURSIVE TrimStart(_)
TrimStart(t) ==
  IF t # <<>> /\ IsSpace(Head(t)) THEN TrimStart(Tail(t)) ELSE t

RECURSIVE TrimEnd(_)
TrimEnd(t) ==
  IF t # <<>> /\ IsSpace(t[Len(t)])
    THEN TrimEnd(SubSeq(t, 1, Len(t) - 1))
    ELSE t

\* String.prototype.trim
Trim(t) == TrimEnd(TrimStart(t))

\* The positions from q on that hold white space without interruption.
SpaceRun(t, q) ==
  {r \in q..Len(t) : \A j \in q..r : IsSpace(t[j])}

\* The first fence at or after position q, 0 if there is none.
NextFence(t, q) ==
  IF \E k \in q..Len(t) : t[k] = Fence
    THEN CHOOSE k \in q..Len(t) :
           t[k] = Fence /\ \A j \in q..(k - 1) : t[j] # Fence
    ELSE 0

\* One match of /FENCE([\w\.\-]+)?\s*\n([\s\S]*?)FENCE/ anchored at position p:
\* the hint, the position after the newline that \s*\n ends on (the last
\* newline of the white-space run, \s* being greedy) and the position of the
\* closing fence; end = 0 when the pattern does not match at p.
MatchAt(t, p) ==
  LET h == IF p + 1 <= Len(t) /\ IsWord(t[p + 1]) THEN 1 ELSE 0
      q == p + 1 + h
      nls == {r \in SpaceRun(t, q) : t[r] = NL}
      n == IF nls = {} THEN 0
           ELSE CHOOSE r \in nls : \A r2 \in nls : r2 <= r
      k == IF n = 0 THEN 0 ELSE NextFence(t, n + 1)
  IN [hint |-> IF h = 1 THEN <<t[p + 1]>> ELSE <<>>,
      body |-> IF k = 0 THEN <<>> ELSE SubSeq(t, n + 1, k - 1),
      end |-> IF t[p] = Fence THEN k ELSE 0]

\* The first position at or after i where the pattern matches, 0 if none.
NextMatch(t, i) ==
  IF \E p \in i..Len(t) : MatchAt(t, p).end # 0
    THEN CHOOSE p \in i..Len(t) :
           /\ MatchAt(t, p).end # 0
           /\ \A j \in i..(p - 1) : MatchAt(t, j).end = 0
    ELSE 0

\* Infer filename from language
InferFilename(hint) ==
  LET filename == IF hint = <<>> THEN "code" ELSE hint[1] IN
  IF toLowerCase(filename) \in {"html", "htm"} THEN "index.html"
  ELSE IF toLowerCase(filename) \in {"css", "style"} THEN "style.css"
  ELSE IF toLowerCase(filename) \in {"js", "javascript"} THEN "script.js"
  ELSE filename

RECURSIVE extractCodeBlocks(_, _)
\* while ((match = codeBlockRegex.exec(text)) !== null) blocks.push(...)
extractCodeBlocks(text, i) ==
  LET p == NextMatch(text, i) IN
  IF p = 0 THEN <<>>
  ELSE LET m == MatchAt(text, p) IN
       <<[filename |-> InferFilename(m.hint), code |-> Trim(m.body)]>>
       \o extractCodeBlocks(text, m.end + 1)

\* if (isUser || isSystem) return []
codeBlocks(message) ==
  IF message.role = "user" \/ message.model = "system" THEN <<>>
  ELSE extractCodeBlocks(message.content, 1)

RECURSIVE RemoveMatches(_, _)
\* message.content.replace(regex, empty string): the matches cut out
RemoveMatches(text, i) ==
  LET p == NextMatch(text, i) IN
  IF p = 0 THEN SubSeq(text, i, Len(text))
  ELSE SubSeq(text, i, p - 1) \o RemoveMatches(text, MatchAt(text, p).end + 1)

textContent(message) ==
  IF Len(codeBlocks(message)) = 0 THEN message.content
  ELSE Trim(RemoveMatches(message.content, 1))


(***************************************************************************)
(* Settings (ApiKeySettings.jsx, RoleSettings.jsx, AppContext.jsx).        *)
(***************************************************************************)
\* role.enabled && role.model
RoleActive(role) == role.enabled /\ Truthy(role.model)

\* Object.values(roles).filter(r => r.enabled && r.model).map(r => r.model)
selectedModels(rs) ==
  LET active == SelectSeq(rs, LAMBDA e : RoleActive(e.content))
  IN [i \in 1..Len(active) |-> active[i].content.model]

\* Object.entries(roles).filter(([_, role]) => role.enabled && role.model)
\*   .map(([key, role]) => ({ key, ...role }))
getActiveRoles(rs) ==
  LET active == SelectSeq(rs, LAMBDA e : RoleActive(e.content))
  IN [i \in 1..Len(active) |->
        [key |-> active[i].name, model |-> active[i].content.model,
         enabled |-> active[i].content.enabled]]

\* prev[roleKey]; a key the object lacks reads as undefined, and spreading
\* undefined contributes no field.
RoleOf(prev, roleKey) ==
  IF roleKey \in KeySet(prev) THEN Lookup(prev, roleKey)
  ELSE [model |-> Undefined, enabled |-> FALSE]

\* A variant of updateRole that deletes the key and inserts it again.
updateRole_Reinsert(prev, roleKey, field, value) ==
  Append(SelectSeq(prev, LAMBDA e : e.name # roleKey),
         [name |-> roleKey,
          content |-> IF field = "enabled"
                        THEN [RoleOf(prev, roleKey) EXCEPT !.enabled = value]
                        ELSE [RoleOf(prev, roleKey) EXCEPT !.model = value]])

\* updateRole: prev => ({...prev, [roleKey]: {...prev[roleKey], ...updates}})
\* with updates = { [field]: value }
updateRole(prev, roleKey, field, value) ==
  Spread(prev, roleKey,
         IF field = "enabled"
           THEN [RoleOf(prev, roleKey) EXCEPT !.enabled = value]
           ELSE [RoleOf(prev, roleKey) EXCEPT !.model = value])

\* Values the settings dialogs are used with.
ApiKeys == {"", "sk-key"}
ConfiguredRoles == {"coder"}
Models == {"m1"}
UserTexts == {<<"build", Space, "me", Space, "a", Space, "page">>}

\* A step that is its own task: React renders before the next handler runs.
Rendered ==
  /\ rendered' = Snapshot'
  /\ turnOps' = 0

SettingsFrame ==
  /\ UNCHANGED <<files, activeFile, currentProject, previewKey, refreshTimers,
                 projects, messages, isGenerating, consensusVars, hookVars>>
  /\ UNCHANGED <<viewVars, mountVars>>
  /\ Rendered

\* ApiKeySettings handleSave: setApiKey(tempKey)
handleSave(tempKey) ==
  /\ apiKey' = tempKey
  /\ toast' = "API key saved successfully"
  /\ result' = Undefined
  /\ UNCHANGED roles
  /\ SettingsFrame

\* The Switch of a role card: updateRole(roleKey, { enabled: checked })
updateRoleEnabled(roleKey, checked) ==
  /\ roleKey \in KeySet(rendered.roles)
  /\ roles' = updateRole(roles, roleKey, "enabled", checked)
  /\ Silent
  /\ UNCHANGED apiKey
  /\ SettingsFrame

\* The model Select is rendered for enabled roles only.
updateRoleModel(roleKey, value) ==
  /\ roleKey \in KeySet(rendered.roles)
  /\ Lookup(rendered.roles, roleKey).enabled
  /\ roles' = updateRole(roles, roleKey, "model", value)
  /\ toast' = "role assigned"
  /\ result' = Undefined
  /\ UNCHANGED apiKey
  /\ SettingsFrame

(***************************************************************************)
(* Orchestration Engine: ChatInput handleSubmit and useOpenRouter          *)
(* sendMessage, up to the await of sendChatMessage and from it on.         *)
(***************************************************************************)
\* addMessage: setMessages(prev => [...prev, {...message, image_url: null}])
\* new Date(): a Date object of the instant read.
NewDate(now) == [type |-> "Date", ms |-> now]

\* Mutant of addMessage: the entry put in front of the log.
addMessage_Prepend(log, message, now) ==
  <<[role |-> message.role, content |-> message.content,
     model |-> message.model, id |-> now, timestamp |-> NewDate(now),
     image_url |-> Null]>> \o log

\* `now` is the reading of Date.now() taken by the updater.
addMessage(log, message, now) ==
  Append(log, [role |-> message.role, content |-> message.content,
               model |-> message.model, id |-> now,
               timestamp |-> NewDate(now), image_url |-> Null])

UserMessage(text) == [role |-> "user", content |-> text, model |-> Undefined]

AssistantMessage(content, model) ==
  [role |-> "assistant", content |-> content, model |-> model]

\* Mutant of NoCredential: the credential test dropped.
NoCredential_Never == FALSE

\* if (!apiKey)
NoCredential == ~Truthy(rendered.apiKey)

\* if (selectedModels.length === 0)
NoActiveRole == Len(selectedModels(rendered.roles)) = 0

\* if (!input.trim() || isGenerating) return
SubmitBlocked == rendered.isGenerating

\* The activation of sendMessage suspended at the await: its argument and the
\* log and files of the render it was created in.
Activation(text) ==
  [userMessage |-> text, messages |-> rendered.messages,
   files |-> rendered.files, hook |-> hook.id]

\* The instance is the mounted one: its state setters take effect.
Alive(id) == hook.mounted /\ hook.id = id

\* The cleanup of the effect on [pollingInterval], run when the state
\* changes and at unmount: if (pollingInterval) clearInterval(pollingInterval)
Cleanup(handles) ==
  IF pollingInterval # NoInterval THEN handles \ {pollingInterval}
  ELSE handles

sendMessage(userMessage) ==
  IF NoCredential
    THEN /\ toast' = "Please set your OpenRouter API key in settings"
         /\ UNCHANGED <<messages, isGenerating, error, chat, clock>>
    ELSE IF NoActiveRole
      THEN /\ toast' = "Please select at least one model"
           /\ UNCHANGED <<messages, isGenerating, error, chat, clock>>
      ELSE /\ Len(messages) < MaxMessages
           /\ error' = Null
           /\ isGenerating' = TRUE
           /\ messages' = addMessage(messages, UserMessage(userMessage),
                                     clock + 1)
           /\ clock' = clock + 1
           /\ chat' = Append(chat, Activation(userMessage))
           /\ toast' = Null

ChatFrame ==
  /\ UNCHANGED <<files, activeFile, currentProject, previewKey, refreshTimers,
                 projects, apiKey, roles, consensusVars>>
  /\ UNCHANGED <<applied, everApplied, extracted, hook, iframe>>
  /\ Rendered

handleSubmit(text) ==
  /\ hook.mounted
  /\ ~SubmitBlocked
  /\ sendMessage(text)
  /\ result' = Undefined
  /\ UNCHANGED <<pollingInterval, intervals, timers, inflight, stopped,
                 owners>>
  /\ ChatFrame

RemoveAt(seq, i) == SubSeq(seq, 1, i - 1) \o SubSeq(seq, i + 1, Len(seq))

\* response.responses of a direct answer: up to MaxResponses model answers.
Response == [content |-> <<"ok">>, model |-> "m1"]
ResponseLists == UNION {[1..n -> {Response}] : n \in 0..MaxResponses}
Errors == {"Network Error"}

\* Milliseconds that pass between two addMessage calls of one forEach.
Gaps == {0, 1}

RECURSIVE AddResponses_Reversed(_, _, _, _)
\* Mutant of AddResponses: the response list walked from its end.
AddResponses_Reversed(log, responses, now, gap) ==
  IF responses = <<>> THEN log
  ELSE AddResponses_Reversed(
         addMessage(log, AssistantMessage(responses[Len(responses)].content,
                                          responses[Len(responses)].model),
                    now),
         SubSeq(responses, 1, Len(responses) - 1), now + gap, gap)

RECURSIVE AddResponses(_, _, _, _)
\* response.responses.forEach(modelResponse => addMessage({...})): the
\* updaters read Date.now() back to back, `gap` ms apart.
AddResponses(log, responses, now, gap) ==
  IF responses = <<>> THEN log
  ELSE AddResponses(addMessage(log, AssistantMessage(Head(responses).content,
                                                     Head(responses).model),
                               now),
                    Tail(responses), now + gap, gap)

\* sendChatMessage resolved without consensus_data: one assistant message
\* per entry of response.responses.
ChatDirect(i, responses, gap) ==
  /\ i \in 1..Len(chat)
  /\ Len(messages) + Len(responses) <= MaxMessages
  /\ messages' = AddResponses(messages, responses, clock + 1, gap)
  /\ clock' = IF responses = <<>> THEN clock
              ELSE clock + 1 + (Len(responses) - 1) * gap
  /\ isGenerating' = FALSE
  /\ chat' = RemoveAt(chat, i)
  /\ Silent
  /\ UNCHANGED <<error, pollingInterval, intervals, timers, inflight, stopped,
                 owners>>
  /\ ChatFrame

\* sendChatMessage resolved with consensus_data.session_id: the system
\* message, then startPolling(sessionId).
ChatConsensus(i) ==
  /\ i \in 1..Len(chat)
  /\ intervals < MaxLoops
  /\ Len(messages) < MaxMessages
  /\ messages' = addMessage(messages,
                          AssistantMessage(Response.content, "system"),
                          clock + 1)
  /\ clock' = clock + 1
  /\ chat' = RemoveAt(chat, i)
  /\ intervals' = intervals + 1
  /\ owners' = [owners EXCEPT ![intervals + 1] = chat[i].hook]
  /\ IF Alive(chat[i].hook)
       THEN /\ pollingInterval' = intervals + 1
            /\ timers' = Cleanup(timers) \cup {intervals + 1}
       ELSE /\ UNCHANGED pollingInterval
            /\ timers' = timers \cup {intervals + 1}
  /\ toast' = "Multi-agent consensus started!"
  /\ result' = Undefined
  /\ UNCHANGED <<isGenerating, error, inflight, stopped>>
  /\ ChatFrame

\* sendChatMessage rejected: the catch block of sendMessage.
ChatFail(i, err) ==
  /\ i \in 1..Len(chat)
  /\ error' = IF Alive(chat[i].hook) THEN err ELSE error
  /\ toast' = err
  /\ isGenerating' = FALSE
  /\ chat' = RemoveAt(chat, i)
  /\ result' = Undefined
  /\ UNCHANGED <<messages, pollingInterval, intervals, timers, inflight,
                 stopped, owners>>
  /\ ChatFrame
  /\ UNCHANGED clock

(***************************************************************************)
(* Consensus Coordinator: startPolling's interval callback and             *)
(* pollConsensusStatus (useOpenRouter.js).                                 *)
(***************************************************************************)
\* Status objects the session-status endpoint answers with.  step_completed
\* stands for whatever the answer carries about a finished step:
\* pollConsensusStatus reads no such field and never calls updateProgress.
\* status.plan: absent (<<>>) or one plan object, which the server sends
\* without an `updated` field.
StatusPlans == {<<>>, <<[steps |-> MaxSteps, updated |-> FALSE]>>}
StatusFiles == {<<>>, <<[name |-> "index.html", content |-> <<>>]>>}
MaxPayload == 1

Bit(b) == IF b THEN 1 ELSE 0

\* The number of optional parts an answer carries.
Payload(st) ==
  Bit(st.consensus_messages # <<>>) + Bit(st.plan # <<>>)
  + Bit(st.phase # Null) + Bit(st.files # <<>>) + Bit(st.step_completed)

Statuses ==
  {st \in [consensus_messages : {<<>>, <<[entry |-> "e1"]>>},
           plan : StatusPlans,
           phase : {Null, "testing"},
           files : StatusFiles,
           step_completed : BOOLEAN,
           status : {"running", "completed", "failed"}] :
     Payload(st) <= MaxPayload}

\* The interval fires: the callback calls getConsensusStatus and awaits it.
TickFire(h) ==
  /\ h \in timers
  /\ inflight[h] < MaxInflight
  /\ inflight' = [inflight EXCEPT ![h] = @ + 1]
  /\ Silent
  /\ UNCHANGED <<error, pollingInterval, chat, intervals, timers, stopped,
                 storeVars, appVars, consensusVars>>
  /\ UNCHANGED <<viewVars, mountVars>>

RECURSIVE AppendAll(_, _)
\* status.consensus_messages.forEach(msg => addConsensusMessage(msg))
AppendAll(log, msgs) ==
  IF msgs = <<>> THEN log
  ELSE AppendAll(addConsensusMessage(log, Head(msgs)), Tail(msgs))

RECURSIVE SpreadAll(_, _)
\* Object.entries(status.files).forEach(([f, c]) => updateFile(f, c))
SpreadAll(obj, entries) ==
  IF entries = <<>> THEN obj
  ELSE SpreadAll(Spread(obj, Head(entries).name, Head(entries).content),
                 Tail(entries))

PreviewableCount(entries) ==
  Cardinality({i \in 1..Len(entries) : Previewable(entries[i].name)})

\* if (status.plan && !status.plan.updated)
PlanIsNew(status) == status.plan # <<>> /\ ~status.plan[1].updated

Terminal(status) == status.status \in {"completed", "failed"}

\* A status request of loop h resolves: the body of pollConsensusStatus and
\* the rest of the interval callback.
PollResolve(h, status) ==
  /\ inflight[h] > 0
  /\ inflight' = [inflight EXCEPT ![h] = @ - 1]
  /\ Len(consensusMessages) + Len(status.consensus_messages) <= MaxConsensus
  /\ consensusMessages' = AppendAll(consensusMessages, status.consensus_messages)
  /\ IF PlanIsNew(status)
       THEN /\ projectPlan' = <<[status.plan[1] EXCEPT !.updated = TRUE]>>
            /\ progress' = PlanProgress(progress, status.plan[1])
       ELSE UNCHANGED <<projectPlan, progress>>
  /\ currentPhase' = IF Truthy(status.phase) THEN status.phase
                     ELSE IF PlanIsNew(status) THEN "coding"
                     ELSE currentPhase
  /\ refreshTimers + PreviewableCount(status.files) <= MaxTimers
  /\ files' = SpreadAll(files, status.files)
  /\ refreshTimers' = refreshTimers + PreviewableCount(status.files)
  /\ IF Terminal(status)
       THEN /\ isGenerating' = FALSE
            /\ IF Alive(owners[h])
                 THEN /\ timers' = Cleanup(timers \ {h})
                      /\ pollingInterval' = NoInterval
                 ELSE /\ timers' = timers \ {h}
                      /\ UNCHANGED pollingInterval
            /\ stopped' = stopped \cup {h}
            /\ toast' = IF status.status = "completed"
                          THEN "Consensus flow completed!"
                          ELSE "Consensus flow failed"
       ELSE /\ UNCHANGED <<isGenerating, timers, pollingInterval, stopped>>
            /\ toast' = IF PlanIsNew(status) THEN "Project plan created!"
                        ELSE Null
  /\ result' = Undefined
  /\ UNCHANGED <<activeFile, currentProject, previewKey, projects, messages,
                 apiKey, roles, error, chat, intervals>>
  /\ UNCHANGED <<viewVars, mountVars>>
  /\ Rendered

\* A variant of the catch block that returns true, which stops the loop.
PollReject_Stops(h) ==
  /\ inflight[h] > 0
  /\ inflight' = [inflight EXCEPT ![h] = @ - 1]
  /\ timers' = timers \ {h}
  /\ toast' = Null
  /\ result' = "Polling error"
  /\ UNCHANGED <<error, pollingInterval, chat, intervals, stopped,
                 storeVars, appVars, consensusVars>>
  /\ UNCHANGED <<viewVars, mountVars>>

\* A status request of loop h is rejected: the catch block logs
\* console.error('Polling error:', err) and returns false.
PollReject(h) ==
  /\ inflight[h] > 0
  /\ inflight' = [inflight EXCEPT ![h] = @ - 1]
  /\ toast' = Null
  /\ result' = "Polling error"
  /\ UNCHANGED <<error, pollingInterval, chat, intervals, timers, stopped,
                 storeVars, appVars, consensusVars>>
  /\ UNCHANGED <<viewVars, mountVars>>

(***************************************************************************)
(* The view that hosts the chat: the layouts render ChatPanel inside a     *)
(* TabsContent, which unmounts it while another tab is shown.              *)
(***************************************************************************)
MaxMounts == 2

\* ChatPanel unmounts: the cleanup of the hook's effect runs, the state of
\* the hook and the refs of the message items are discarded.
Teardown ==
  /\ hook.mounted
  /\ hook' = [hook EXCEPT !.mounted = FALSE]
  /\ timers' = Cleanup(timers)
  /\ pollingInterval' = NoInterval
  /\ error' = Null
  /\ applied' = {}
  /\ Silent
  /\ UNCHANGED <<chat, intervals, inflight, stopped, owners, clock, extracted,
                 everApplied, iframe, files, activeFile, currentProject, previewKey, refreshTimers,
                 projects, appVars, consensusVars>>
  /\ Rendered

\* ChatPanel mounts again: a new instance, its state initialised anew.
Mount ==
  /\ ~hook.mounted
  /\ hook.id < MaxMounts
  /\ hook' = [mounted |-> TRUE, id |-> hook.id + 1]
  /\ Silent
  /\ UNCHANGED <<hookVars, owners, iframe, viewVars, files, activeFile, currentProject,
                 previewKey, refreshTimers, projects, appVars, consensusVars>>
  /\ Rendered

Next ==
  \/ \E k \in ApiKeys : handleSave(k)
  \/ \E r \in ConfiguredRoles, b \in BOOLEAN : updateRoleEnabled(r, b)
  \/ \E r \in ConfiguredRoles, m \in Models : updateRoleModel(r, m)
  \/ \E t \in UserTexts : handleSubmit(t)
  \/ \E i \in 1..MaxLoops + 1, rs \in ResponseLists, g \in Gaps :
       ChatDirect(i, rs, g)
  \/ \E i \in 1..MaxLoops + 1 : ChatConsensus(i)
  \/ \E i \in 1..MaxLoops + 1, e \in Errors : ChatFail(i, e)
  \/ \E h \in 1..MaxLoops : TickFire(h)
  \/ \E h \in 1..MaxLoops, st \in Statuses : PollResolve(h, st)
  \/ \E h \in 1..MaxLoops : PollReject(h)
  \/ refreshPreview

(***************************************************************************)
(* MessageItem rendering one message of the log: what it extracts.         *)
(***************************************************************************)
NothingExtracted == [codeBlocks |-> <<>>, textContent |-> <<>>]

MessageRender(n) ==
  /\ n \in 1..Len(rendered.messages)
  /\ extracted' = [codeBlocks |-> codeBlocks(rendered.messages[n]),
                   textContent |-> textContent(rendered.messages[n])]
  /\ Silent
  /\ UNCHANGED <<storeVars, appVars, consensusVars, hookVars, clock, applied,
                 everApplied, mountVars>>

\* Message texts the extractor is applied to: up to MaxSegments pieces, each
\* a line of prose, a closed block with one of several opening lines, or a
\* block left open.
MaxSegments == 3

Block(info, body) == <<Fence>> \o info \o <<NL>> \o body \o <<NL, Fence, NL>>

Segments ==
  {<<"a", NL>>,
   Block(<<"html">>, <<"a">>),
   Block(<<"css">>, <<"b">>),
   Block(<<"HTML", Space>>, <<"b">>),
   Block(<<>>, <<"a">>),
   Block(<<"c++">>, <<"a">>),
   <<Fence, "js", NL, "a", NL>>}

RECURSIVE Concat(_)
Concat(segs) == IF segs = <<>> THEN <<>> ELSE Head(segs) \o Concat(Tail(segs))

Texts ==
  {Concat(segs) : segs \in UNION {[1..n -> Segments] : n \in 0..MaxSegments}}

InitExtract ==
  /\ StoreInit
  /\ ConsensusInit
  /\ HookInit
  /\ isGenerating = FALSE
  /\ apiKey = ""
  /\ roles = DEFAULT_ROLES
  /\ \E text \in Texts :
       messages = addMessage(<<>>, AssistantMessage(text, "m1"), 1)
  /\ clock = 1
  /\ applied = {}
  /\ everApplied = {}
  /\ extracted = NothingExtracted
  /\ rendered = Snapshot
  /\ toast = Null
  /\ result = Undefined

ExtractNext == \E n \in 1..MaxMessages : MessageRender(n)

SpecExtract == InitExtract /\ [][ExtractNext]_vars

(***************************************************************************)
(* MessageItem auto-apply effect (runs after the render that mounted or    *)
(* updated the item).                                                      *)
(***************************************************************************)
RECURSIVE ApplyBlocks_FirstWins(_, _)
\* A forEach that would keep the first block written to a filename.
ApplyBlocks_FirstWins(obj, blocks) ==
  IF blocks = <<>> THEN obj
  ELSE Spread(ApplyBlocks_FirstWins(obj, Tail(blocks)),
              Head(blocks).filename, Head(blocks).code)

RECURSIVE ApplyBlocks(_, _)
\* codeBlocks.forEach(({ filename, code }) => updateFile(filename, code))
ApplyBlocks(obj, blocks) ==
  IF blocks = <<>> THEN obj
  ELSE ApplyBlocks(Spread(obj, Head(blocks).filename, Head(blocks).code),
                   Tail(blocks))

\* Timers set by the effect: one per updateFile of a previewable name, and
\* the effect's own setTimeout(refreshPreview, 300).
EffectTimers(blocks) ==
  Cardinality({j \in 1..Len(blocks) : Previewable(blocks[j].filename)}) + 1

\* if (hasCode && !appliedRef.current); the effects of the items of one
\* commit run in the order of the items.
MessageEffect(n) ==
  /\ hook.mounted
  /\ turnOps = 0
  /\ n \in 1..Len(rendered.messages)
  /\ LET blocks == codeBlocks(rendered.messages[n])
         key == InstanceKey(rendered.messages, n)
     IN /\ Len(blocks) > 0
        /\ key \notin applied
        /\ \A j \in 1..(n - 1) :
             \/ Len(codeBlocks(rendered.messages[j])) = 0
             \/ InstanceKey(rendered.messages, j) \in applied
        /\ refreshTimers + EffectTimers(blocks) <= MaxTimers
        /\ applied' = applied \cup {key}
        /\ everApplied' = everApplied \cup {key}
        /\ files' = ApplyBlocks(files, blocks)
        /\ refreshTimers' = refreshTimers + EffectTimers(blocks)
  /\ Silent
  /\ UNCHANGED <<activeFile, currentProject, previewKey, projects, appVars,
                 consensusVars, hookVars, clock, extracted, mountVars>>
  /\ Rendered

(***************************************************************************)
(* The Conversation Log over a session: direct chat turns whose answers    *)
(* carry code, and project save / load.                                    *)
(***************************************************************************)
\* Answers of the chat endpoint: prose, one js block, a js block with an
\* empty body, two js blocks.
CodeTexts ==
  {<<"ok">>,
   Block(<<"js">>, <<"console.log(1)">>),
   Block(<<"js">>, <<>>),
   Block(<<"js">>, <<"a">>) \o Block(<<"js">>, <<"b">>)}

CodeResponseLists ==
  UNION {[1..n -> [content : CodeTexts, model : {"m1"}]] :
           n \in 0..MaxResponses}

\* The settings kept in localStorage from an earlier visit: a credential,
\* and the coder role bound to a model.
InitLog ==
  /\ StoreInit
  /\ ConsensusInit
  /\ HookInit
  /\ messages = <<>>
  /\ isGenerating = FALSE
  /\ apiKey = "sk-key"
  /\ roles = updateRole(DEFAULT_ROLES, "coder", "model", "m1")
  /\ rendered = Snapshot
  /\ clock = 0
  /\ applied = {}
  /\ everApplied = {}
  /\ extracted = NothingExtracted
  /\ toast = Null
  /\ result = Undefined

\* Conversation Log entries followed under SpecLog: a turn is taken up only
\* if its user message and a full answer still fit.
MaxLogMessages == 3

LogSubmit(text) ==
  /\ Len(messages) + 1 + MaxResponses <= MaxLogMessages
  /\ handleSubmit(text)

LogNext ==
  \/ \E t \in UserTexts : LogSubmit(t)
  \/ \E i \in 1..MaxLoops + 1, rs \in CodeResponseLists, g \in Gaps :
       ChatDirect(i, rs, g)
  \/ \E n \in 1..MaxMessages : MessageEffect(n)
  \/ \E n \in ProjectNames : saveProject(n)
  \/ \E n \in ProjectNames : loadProject(n)
  \/ refreshPreview
  \/ Render

SpecLog == InitLog /\ [][LogNext]_vars

\* The same turns while the chat view is unmounted and mounted again.
RemountNext ==
  \/ \E t \in UserTexts : LogSubmit(t)
  \/ \E i \in 1..MaxLoops + 1, rs \in CodeResponseLists, g \in Gaps :
       ChatDirect(i, rs, g)
  \/ \E n \in 1..MaxMessages : MessageEffect(n)
  \/ refreshPreview
  \/ Teardown
  \/ Mount

SpecRemount == InitLog /\ [][RemountNext]_vars

Init ==
  /\ StoreInit
  /\ AppInit
  /\ ConsensusInit
  /\ HookInit
  /\ rendered = Snapshot
  /\ clock = 0
  /\ applied = {}
  /\ everApplied = {}
  /\ extracted = NothingExtracted
  /\ toast = Null
  /\ result = Undefined

Spec == Init /\ [][Next]_vars

SpecStore == Init /\ [][StoreNext]_vars

SpecProgress == Init /\ [][ProgressNext]_vars

(***************************************************************************)
(* Artifact Store claims, checked under SpecStore.                         *)
(***************************************************************************)
\* The rendered snapshot is the committed state: no handler has run since
\* the last render.
Quiescent == turnOps = 0

C6_CreateExistingFails ==
  [][\A f \in FileNames, c \in Contents :
       (Quiescent /\ f \in KeySet(files) /\ createFile(f, c))
         => /\ result' = False
            /\ files' = files
            /\ activeFile' = activeFile]_vars

\* C7: the Artifact Store, committed and rendered, always holds at least one
\* file.
C7_NeverEmpty ==
  /\ Len(files) >= 1
  /\ Len(rendered.files) >= 1

\* C7 witness: a deleteFile went through and left a single file.
C7_Witness ==
  /\ Len(files) = 1
  /\ toast = "File deleted"

\* C8: whenever the committed state has been rendered, the active selection
\* names a key of the Artifact Store.
C8_ActiveInStore ==
  Quiescent => activeFile \in KeySet(files)

(***************************************************************************)
(* Progress claims, checked under SpecProgress.                            *)
(***************************************************************************)
\* C9: whenever progress.total > 0, progress.current <= progress.total.
C9_CurrentWithinTotal ==
  progress.total > 0 => progress.current <= progress.total

\* C10: once progress.status is completed or failed, no step changes it.
C10_TerminalStatusKept ==
  [][progress.status \in {"completed", "failed"}
       => progress'.status = progress.status]_vars


(***************************************************************************)
(* Orchestration Engine and Consensus Coordinator claims, under Spec.      *)
(***************************************************************************)
\* C1: when the chat-dispatch call of a submit that passed both guards
\* fails, the Conversation Log after the failure is the log of immediately
\* before that submit and the Artifact Store is untouched: no entry of the
\* failed turn stays in the log.
C1_FailedTurnLeavesNoEntry ==
  [][\A i \in 1..MaxLoops + 1, e \in Errors :
       ChatFail(i, e) => /\ messages' = chat[i].messages
                         /\ files' = chat[i].files]_vars

\* C2: once a tick of poll loop h has observed completed or failed, the
\* loop starts no further tick, and no tick of it, one already in flight
\* included, writes the Artifact Store, the consensus log or the progress.
C2_NoWriteAfterTerminal ==
  [][\A h \in stopped :
       /\ ~TickFire(h)
       /\ \A st \in Statuses :
            PollResolve(h, st) => /\ files' = files
                                  /\ consensusMessages' = consensusMessages
                                  /\ progress' = progress]_vars

\* C3: while a poll loop has not observed a terminal status, no submit
\* reaches the chat-dispatch call, and at most one poll loop is active.
C3_OneLoopNoDispatch ==
  [][/\ timers # {} => Len(chat') <= Len(chat)
     /\ Cardinality(timers') <= 1]_vars

\* C4: with an empty credential, or with no role both enabled and bound to
\* a model, submit makes no chat-dispatch call and leaves the Conversation
\* Log, the Artifact Store and the generating indicator unchanged.
C4_GuardsFailFast ==
  [][\A t \in UserTexts :
       (/\ ~Truthy(apiKey) \/ Len(selectedModels(roles)) = 0
        /\ handleSubmit(t))
       => /\ chat' = chat
          /\ messages' = messages
          /\ files' = files
          /\ isGenerating' = isGenerating]_vars

\* C4 witness: a submit was turned away for the missing credential with a
\* role already bound to a model.
C4_Witness ==
  /\ toast = "Please set your OpenRouter API key in settings"
  /\ Len(selectedModels(roles)) > 0
  /\ chat = <<>>
  /\ ~isGenerating

\* C11: a step-completion update sets the status to completed exactly when
\* the resulting current equals total, and to running otherwise; after any
\* plan application or step-completion update the status is completed if
\* and only if current equals total.
C11_CompletedIffCurrentIsTotal ==
  [][/\ \A ph \in StepPhases :
          StepCompleted([phase |-> ph])
          => /\ progress'.status \in {"completed", "running"}
             /\ progress'.status = "completed"
                <=> progress'.current = progress'.total
     /\ \A n \in PlanSteps :
          PlanApplied(n)
          => (progress'.status = "completed"
              <=> progress'.current = progress'.total)]_vars

\* C12: once a plan has been applied in a consensus session, each poll tick
\* that reports a step completion increases progress.current by exactly
\* one (a 3-step plan and one reported completion give current 1, total 3,
\* status running).
C12_TickAdvancesProgress ==
  [][\A h \in 1..MaxLoops, st \in Statuses :
       (/\ projectPlan # <<>>
        /\ st.step_completed
        /\ PollResolve(h, st))
       => progress'.current = progress.current + 1]_vars

(***************************************************************************)
(* Code Extractor claims, under SpecExtract.                               *)
(***************************************************************************)
\* The closed fenced blocks of a text, read off its lines: an opening
\* fence, the rest of its line (the info), the body up to the next fence.
RECURSIVE ClosedBlocks(_, _)
ClosedBlocks(t, i) ==
  LET p == NextFence(t, i) IN
  IF p = 0 THEN <<>>
  ELSE LET infoEnd == CHOOSE e \in p..Len(t) :
                        /\ \A j \in (p + 1)..e : t[j] \notin {NL, Fence}
                        /\ e = Len(t) \/ t[e + 1] \in {NL, Fence}
           k == IF infoEnd < Len(t) THEN NextFence(t, infoEnd + 1) ELSE 0
       IN IF k = 0 THEN <<>>
          ELSE IF t[infoEnd + 1] = NL
            THEN <<[info |-> Trim(SubSeq(t, p + 1, infoEnd)),
                    body |-> SubSeq(t, infoEnd + 2, k - 1)]>>
                 \o ClosedBlocks(t, k + 1)
            ELSE ClosedBlocks(t, k + 1)

\* C16: the extractor returns one (filename, content) pair per closed
\* fenced block, in the order of the fences, with hint html mapped to
\* index.html and css to style.css; for a text without a fence it returns
\* the empty list and the prose is the whole text.
C16_OnePairPerClosedBlock ==
  [][\A n \in 1..MaxMessages :
       MessageRender(n) =>
         LET text == rendered.messages[n].content
             ref == ClosedBlocks(text, 1)
             got == extracted'.codeBlocks
         IN /\ Len(got) = Len(ref)
            /\ \A j \in 1..Len(got) :
                 /\ got[j].code = Trim(ref[j].body)
                 /\ ref[j].info = <<"html">> => got[j].filename = "index.html"
                 /\ ref[j].info = <<"css">> => got[j].filename = "style.css"
            /\ NextFence(text, 1) = 0
               => got = <<>> /\ extracted'.textContent = text]_vars

(***************************************************************************)
(* Conversation Log and persistence claims, under SpecLog.                 *)
(***************************************************************************)
\* C13: saveProject(name) followed by loadProject(name) yields an Artifact
\* Store and a Conversation Log deep-equal to those at the moment of the
\* save: same files and contents, same messages with the same field values
\* and types, in the same order.  What the save stores is what the load
\* sets, so the stored project has to equal the store and log it was saved
\* from.
C13_SaveLoadRoundTrip ==
  [][\A name \in ProjectNames :
       /\ saveProject(name)
          => \A j \in 1..Len(projects') :
               projects'[j].name = name
               => /\ projects'[j].files = files
                  /\ projects'[j].messages = messages
       /\ (FindIndex(name) > 0 /\ loadProject(name))
          => /\ files' = projects[FindIndex(name)].files
             /\ messages' = projects[FindIndex(name)].messages]_vars

\* What a log entry says, apart from its id and timestamp.
Says(m, role, content, model) ==
  m.role = role /\ m.content = content /\ m.model = model

IsPrefix(a, b) == Len(a) <= Len(b) /\ SubSeq(b, 1, Len(a)) = a

LastCode(blocks, filename) ==
  LET js == {j \in 1..Len(blocks) : blocks[j].filename = filename}
  IN blocks[CHOOSE j \in js : \A j2 \in js : j2 <= j].code

Targets(blocks) == {blocks[j].filename : j \in 1..Len(blocks)}

\* The effects of the rendered log that have not run yet.
PendingEffects(log, done) ==
  {n \in 1..Len(log) :
     Len(codeBlocks(log[n])) > 0 /\ InstanceKey(log, n) \notin done}

C17_LogAppendedOrReplaced ==
  [][\/ messages' = messages
     \/ /\ Len(messages') > Len(messages)
        /\ SubSeq(messages', 1, Len(messages)) = messages
     \/ \E name \in ProjectNames : loadProject(name)]_vars

\* C17 witness: a log replaced by a project load (its first entry carries
\* the timestamp of the stored copy) and then extended by two appends.
C17_Witness ==
  /\ Len(messages) = 3
  /\ messages[1].timestamp.type = "string"
  /\ messages[3].timestamp.type = "Date"

\* C18: no two messages of the Conversation Log have the same id, messages
\* appended back to back within one response-handling step included.
C18_IdsDistinct ==
  \A i, j \in 1..Len(messages) : i # j => messages[i].id # messages[j].id

(***************************************************************************)
(* Role settings: the switches and model selects of all five role cards,   *)
(* with project save and load.                                             *)
(***************************************************************************)
\* The role cards that are operated.
RoleKeys == {"designer", "coder", "debugger"}

RolesNext ==
  \/ \E r \in RoleKeys, b \in BOOLEAN : updateRoleEnabled(r, b)
  \/ \E r \in RoleKeys, m \in Models : updateRoleModel(r, m)
  \/ \E name \in ProjectNames : saveProject(name)
  \/ \E name \in ProjectNames : loadProject(name)
  \/ Render

SpecRoles == Init /\ [][RolesNext]_vars

\* The order the roles are declared in.
DeclaredOrder == <<"planner", "designer", "coder", "eyes", "debugger">>

\* C19: getActiveRoles returns exactly the roles with enabled = true and a
\* non-empty model, in the order planner, designer, coder, eyes, debugger,
\* after any sequence of updateRole calls and project loads; an enabled
\* role without a model contributes no entry.
C19_ActiveRolesInDeclaredOrder ==
  LET active == getActiveRoles(roles)
      expected ==
        SelectSeq(DeclaredOrder,
                  LAMBDA k : /\ k \in KeySet(roles)
                             /\ Lookup(roles, k).enabled = TRUE
                             /\ Lookup(roles, k).model \notin {Null, Undefined, ""})
  IN /\ Len(active) = Len(expected)
     /\ \A i \in 1..Len(active) :
          /\ active[i].key = expected[i]
          /\ active[i].model = Lookup(roles, expected[i]).model
          /\ active[i].enabled = TRUE

\* C19 witness: after role updates and a project load, designer and debugger
\* are active while planner is enabled without a model and coder is disabled.
C19_Witness ==
  /\ toast = "Project loaded"
  /\ [i \in 1..Len(getActiveRoles(roles)) |-> getActiveRoles(roles)[i].key]
       = <<"designer", "debugger">>
  /\ Lookup(roles, "planner") = [model |-> Null, enabled |-> TRUE]
  /\ Lookup(roles, "coder").enabled = FALSE

\* C20: when a status request of an open consensus session is rejected, the
\* session ends: the poll loop stops, the generating indicator clears,
\* exactly one error notice is added to the Conversation Log and the
\* Artifact Store is unchanged.
C20_RejectedPollEndsSession ==
  [][\A h \in 1..MaxLoops :
       (h \in timers /\ PollReject(h)) =>
         /\ h \notin timers'
         /\ ~isGenerating'
         /\ Len(messages') = Len(messages) + 1
         /\ SubSeq(messages', 1, Len(messages)) = messages
         /\ files' = files]_vars

(***************************************************************************)
(* Consensus sessions while the chat view is unmounted and mounted again:  *)
(* the settings are in place, every chat call is answered with a session   *)
(* id or fails.                                                            *)
(***************************************************************************)
TeardownNext ==
  \/ \E t \in UserTexts : handleSubmit(t)
  \/ \E i \in 1..MaxLoops + 1 : ChatConsensus(i)
  \/ \E i \in 1..MaxLoops + 1, e \in Errors : ChatFail(i, e)
  \/ \E h \in 1..MaxLoops : TickFire(h)
  \/ \E h \in 1..MaxLoops, st \in Statuses : PollResolve(h, st)
  \/ \E h \in 1..MaxLoops : PollReject(h)
  \/ Teardown
  \/ Mount

SpecTeardown == InitLog /\ [][TeardownNext]_vars

\* The host view of poll loop h has been torn down.
TornDown(h) == owners[h] # NoOwner /\ ~Alive(owners[h])

\* C21: after the host view owning a poll loop is torn down, no tick of that
\* loop writes the Artifact Store, the consensus log or the progress state,
\* a tick whose status request was in flight at teardown included, and no
\* further tick of it is issued.
C21_NoWriteAfterTeardown ==
  [][\A h \in 1..MaxLoops :
       TornDown(h) =>
         /\ ~TickFire(h)
         /\ \A st \in Statuses :
              PollResolve(h, st) => /\ files' = files
                                    /\ consensusMessages' = consensusMessages
                                    /\ progress' = progress]_vars

(***************************************************************************)
(* Preview Compositor (PreviewPanel.jsx updatePreview).  A document is a   *)
(* text, a sequence of tokens: the tags the compositor looks for, the word *)
(* viewport, the replacement patterns of String.prototype.replace, and     *)
(* other text.                                                             *)
(***************************************************************************)
HeadOpen == "<head>"
HeadClose == "</head>"
BodyClose == "</body>"
Viewport == "viewport"
MetaOpen == "<meta name="
MetaClose == " content=width=device-width>"

\* '<html><body></body></html>'
DefaultHtml == <<"<html>", "<body>", BodyClose, "</html>">>

\* files[name] || '' : an absent file and an empty one are both falsy.
FileText(obj, name) == IF name \in KeySet(obj) THEN Lookup(obj, name) ELSE <<>>

RECURSIVE Expand(_, _)
\* The replacement string of replace: $& stands for the matched text and
\* $$ for a dollar sign.
Expand(replacement, match) ==
  IF replacement = <<>> THEN <<>>
  ELSE (IF Head(replacement) = "$&" THEN <<match>>
        ELSE IF Head(replacement) = "$$" THEN <<"$">>
        ELSE <<Head(replacement)>>) \o Expand(Tail(replacement), match)

\* str.replace(pattern, replacement) with a string pattern: the first
\* occurrence only.
replace(str, pattern, replacement) ==
  IF \E i \in 1..Len(str) : str[i] = pattern
    THEN LET i == CHOOSE k \in 1..Len(str) :
                    str[k] = pattern /\ \A j \in 1..(k - 1) : str[j] # pattern
         IN SubSeq(str, 1, i - 1) \o Expand(replacement, pattern)
            \o SubSeq(str, i + 1, Len(str))
    ELSE str

\* str.includes(word)
includes(str, word) == \E i \in 1..Len(str) : str[i] = word

\* html after the CSS and the JavaScript have been injected.
WithStyleAndScript(obj) ==
  LET index == FileText(obj, "index.html")
      css == FileText(obj, "style.css")
      js == FileText(obj, "script.js")
      html0 == IF index # <<>> THEN index ELSE DefaultHtml
      html1 == IF css # <<>>
                 THEN replace(html0, HeadClose,
                              <<"<style>">> \o css \o <<"</style>", HeadClose>>)
                 ELSE html0
  IN IF js # <<>>
       THEN replace(html1, BodyClose,
                    <<"<script>">> \o js \o <<"</script>", BodyClose>>)
       ELSE html1

\* A compositor that adds the viewport tag whatever the markup holds.
AddViewport_Always(html) ==
  replace(html, HeadOpen, <<HeadOpen, MetaOpen, Viewport, MetaClose>>)

\* if (!html.includes('viewport')) html = html.replace('<head>', ...)
AddViewport(html) ==
  IF ~includes(html, Viewport)
    THEN replace(html, HeadOpen, <<HeadOpen, MetaOpen, Viewport, MetaClose>>)
    ELSE html

\* The html that updatePreview writes.
updatePreview(obj) == AddViewport(WithStyleAndScript(obj))

\* iframeDoc.open(); iframeDoc.write(html); iframeDoc.close()
\* open() discards the document the iframe holds.
DocWrite(doc, html) == html

\* useEffect(() => updatePreview(), [files, previewKey]); also run by every
\* mount of the panel.
PreviewEffect ==
  /\ turnOps = 0
  /\ iframe' = DocWrite(iframe, updatePreview(rendered.files))
  /\ Silent
  /\ UNCHANGED <<storeVars, appVars, consensusVars, hookVars, viewVars, hook,
                 owners>>

\* The Refresh button: onClick={refreshPreview}
handleRefresh ==
  /\ previewKey < MaxPreviewKey
  /\ previewKey' = previewKey + 1
  /\ Silent
  /\ UNCHANGED <<files, activeFile, currentProject, refreshTimers, projects,
                 appVars, consensusVars, hookVars, viewVars, mountVars>>
  /\ Rendered

\* Store snapshots the compositor is run on.
IndexTexts ==
  {<<>>,
   <<"<html>", HeadOpen, HeadClose, "<body>", BodyClose, "</html>">>,
   <<"<body>", BodyClose>>,
   <<HeadOpen, MetaOpen, Viewport, MetaClose, HeadClose, BodyClose>>,
   <<HeadOpen, HeadClose, HeadOpen, HeadClose, BodyClose, BodyClose>>}
StyleTexts == {<<>>, <<"a">>, <<Viewport>>, <<"$&">>}
ScriptTexts == {<<>>, <<"a">>, <<HeadOpen>>, <<"$$">>}

PreviewFiles ==
  {<<[name |-> "index.html", content |-> i],
     [name |-> "style.css", content |-> c],
     [name |-> "script.js", content |-> j]>> :
     i \in IndexTexts, c \in StyleTexts, j \in ScriptTexts}

InitPreview ==
  /\ files \in PreviewFiles
  /\ activeFile = "index.html"
  /\ currentProject = Null
  /\ previewKey = 0
  /\ refreshTimers = 0
  /\ projects = <<>>
  /\ turnOps = 0
  /\ AppInit
  /\ ConsensusInit
  /\ HookInit
  /\ rendered = Snapshot
  /\ clock = 0
  /\ applied = {}
  /\ everApplied = {}
  /\ extracted = NothingExtracted
  /\ toast = Null
  /\ result = Undefined

PreviewNext == PreviewEffect \/ handleRefresh

SpecPreview == InitPreview /\ [][PreviewNext]_vars

RECURSIVE Count(_, _)
Count(str, word) ==
  IF str = <<>> THEN 0
  ELSE (IF Head(str) = word THEN 1 ELSE 0) + Count(Tail(str), word)

\* C22: composing the preview again from the same store snapshot yields
\* the same document, and the composed document holds at most one viewport
\* directive injected by the compositor, none when the composed markup
\* already mentions a viewport.
C22_ComposeIdempotent ==
  [][PreviewEffect =>
       LET before == WithStyleAndScript(rendered.files)
           injected == Count(iframe', MetaOpen) - Count(before, MetaOpen)
       IN /\ iframe # <<>> => iframe' = iframe
          /\ injected \in {0, 1}
          /\ includes(before, Viewport) => injected = 0]_vars

\* C22 witness: a document composed from a store whose markup has a head
\* and no viewport, holding the one injected directive.
C22_Witness ==
  /\ iframe # <<>>
  /\ ~includes(WithStyleAndScript(files), Viewport)
  /\ Count(iframe, MetaOpen) = 1
  /\ previewKey > 0

\* C23: a poll tick whose status request fails leaves the Artifact Store,
\* the Conversation Log, the consensus log, the progress state and the
\* generating indicator unchanged and does not stop the loop: its interval
\* stays set, so the next tick is issued.
C23_FailedTickIsRetried ==
  [][\A h \in 1..MaxLoops :
       (h \in timers /\ PollReject(h)) =>
         /\ files' = files
         /\ messages' = messages
         /\ consensusMessages' = consensusMessages
         /\ progress' = progress
         /\ isGenerating' = isGenerating
         /\ h \in timers'
         /\ inflight'[h] < MaxInflight]_vars

\* C23 witness: a status request has just failed, its loop is still
\* running and the session is still generating.
C23_Witness ==
  /\ result = "Polling error"
  /\ timers # {}
  /\ isGenerating

\* C24: within one consensus session the plan is applied at most once: a
\* tick whose status carries the plan after an earlier tick has applied it
\* does not set progress.total, the phase or progress.status again.
C24_PlanAppliedOnce ==
  [][\A h \in 1..MaxLoops : \A st \in Statuses :
       (/\ intervals = 1
        /\ projectPlan # <<>>
        /\ st.plan # <<>>
        /\ PollResolve(h, st))
       => /\ progress' = progress
          /\ currentPhase' = currentPhase
          /\ toast' # "Project plan created!"]_vars

\* C25: each inter-agent discussion entry is in the consensus log at most
\* once, also when the session-status endpoint returns the same entry in
\* several successive polls.
C25_EntryLoggedOnce ==
  \A i, j \in 1..Len(consensusMessages) :
    consensusMessages[i].entry = consensusMessages[j].entry => i = j

\* The blocks whose body is not empty after trimming.
NonEmpty(blocks) == SelectSeq(blocks, LAMBDA b : b.code # <<>>)

\* C26: a fenced block whose body is empty after trimming causes no write
\* to the Artifact Store: the store after the auto-apply effect is the one
\* the blocks with a body produce, so a file targeted only by empty blocks
\* keeps its content and is not created.
C26_EmptyBodyWritesNothing ==
  [][\A n \in 1..MaxMessages :
       MessageEffect(n) =>
         files' = ApplyBlocks(files, NonEmpty(codeBlocks(rendered.messages[n])))]_vars

\* C27: a burst of two or more writes to previewable files issued within
\* the debounce window causes exactly one preview refresh: the writes of one
\* auto-apply effect leave one refresh to come, each pending refresh being
\* one increase of previewKey.
C27_BurstRefreshesOnce ==
  [][\A n \in 1..MaxMessages :
       (/\ MessageEffect(n)
        /\ EffectTimers(codeBlocks(rendered.messages[n])) - 1 >= 2)
       => refreshTimers' = refreshTimers + 1]_vars

\* C28: whenever no chat-dispatch call is in flight and no poll loop is
\* active, the generating indicator is false, also after a poll loop was
\* cancelled by the teardown of its view.
C28_IdleMeansNotGenerating ==
  (chat = <<>> /\ timers = {}) => ~isGenerating

\* C29: the code blocks of an assistant message are auto-applied at most
\* once over the lifetime of its log entry: the effect never runs for an
\* entry whose blocks it has applied before, also after the message view was
\* mounted again.
C29_AppliedAtMostOnce ==
  [][\A n \in 1..MaxMessages :
       MessageEffect(n) => InstanceKey(rendered.messages, n) \notin everApplied]_vars

\* C30: deleteFile(f) on a store with more than one file changes the file
\* map only by removing f: every other file keeps its latest written
\* content, content written earlier in the same turn included.
C30_DeleteRemovesOnlyTarget ==
  [][\A f \in FileNames :
       (Len(files) > 1 /\ f \in KeySet(files) /\ deleteFile(f))
       => files' = DeleteKey(files, f)]_vars

====
